---- MODULE Spec2Model ----
(***************************************************************************)
(* Deirokay statements: the statement contract (BaseStatement) and the     *)
(* built-in statements Unique, NotNull, RowCount, Contain and              *)
(* StatisticInInterval.                                                    *)
(*                                                                         *)
(* A statement instance is built from an options dict, then `report`       *)
(* measures a scoped table, `result` reduces a report to a verdict,        *)
(* `__call__` does both, and the static `profile` infers options from a    *)
(* sample table.                                                           *)
(*                                                                         *)
(* Numbers.  Python floats are modelled as exact rationals <<num, den>>    *)
(* in lowest terms with den > 0; <<0, 0>> is NaN (all comparisons with it  *)
(* are false).  Every float the model draws or computes is a quotient of   *)
(* small integers compared against such quotients, for which correctly     *)
(* rounded IEEE division orders and equates exactly as the rationals do.   *)
(* None is the empty sequence <<>> and a present optional x is <<x>>.      *)
(***************************************************************************)
EXTENDS Integers, Sequences, FiniteSets, TLC

VARIABLES inst, held, last

vars == <<inst, held, last>>

(***************************************************************************)
(* Bounds of the model.                                                    *)
(***************************************************************************)
\* Rows of the tables the statements of one family are evaluated on.
MaxRows == 3

\* Rows of the tables of Spec, where one instance is used again and again.
MaxCallRows == 2

(***************************************************************************)
(* Values, rationals, tables.                                              *)
(***************************************************************************)
\* A null cell (None / NaN) of a table.
Null == 0

None == <<>>

Some(x) == <<x>>

ToSet(s) == {s[i] : i \in 1..Len(s)}

Abs(x) == IF x < 0 THEN -x ELSE x

Max2(a, b) == IF a >= b THEN a ELSE b

RECURSIVE GCD(_, _)
GCD(a, b) == IF b = 0 THEN a ELSE GCD(b, a % b)

NaN == <<0, 0>>

\* The float n/d (d >= 0); 0/0 is NaN, as numpy's division gives.
Rat(n, d) ==
    IF d = 0 THEN NaN
    ELSE LET g == GCD(Abs(n), d) IN <<n \div g, d \div g>>

Num(n) == <<n, 1>>

IsNaN(a) == a[2] = 0

RatLe(a, b) == ~IsNaN(a) /\ ~IsNaN(b) /\ a[1] * b[2] <= b[1] * a[2]

RatLt(a, b) == ~IsNaN(a) /\ ~IsNaN(b) /\ a[1] * b[2] < b[1] * a[2]

RatGe(a, b) == RatLe(b, a)

RatGt(a, b) == RatLt(b, a)

RatAbsDiff(a, b) == Rat(Abs(a[1] * b[2] - b[1] * a[2]), a[2] * b[2])

RatAbs(a) == <<Abs(a[1]), a[2]>>

RatMul(a, b) == Rat(a[1] * b[1], a[2] * b[2])

RatMax(a, b) == IF RatGe(a, b) THEN a ELSE b

\* A table (DataFrame): ncols named columns, rows aligned by position.
Table(ncols, rows) == [ncols |-> ncols, rows |-> rows]

RECURSIVE SeqsUpTo(_, _)
SeqsUpTo(S, n) ==
    IF n = 0 THEN {<<>>}
    ELSE LET shorter == SeqsUpTo(S, n - 1)
         IN  shorter \cup {Append(s, x) : s \in {t \in shorter : Len(t) = n - 1}, x \in S}

TablesOf(ncols, cells, maxrows) ==
    {Table(ncols, rows) : rows \in SeqsUpTo([1..ncols -> cells], maxrows)}

NRows(df) == Len(df.rows)

Column(df, c) == [i \in 1..NRows(df) |-> df.rows[i][c]]

\* float(100.0 * k / n) over numpy integers: 0/0 is NaN, no exception.
Percent(k, n) == Rat(100 * k, n)

(***************************************************************************)
(* Outcomes of a call: a value or a raised exception.                      *)
(***************************************************************************)
NoErr == [kind |-> "none", unexpected |-> {}, valid |-> <<>>]

Err(kind) == [kind |-> kind, unexpected |-> {}, valid |-> <<>>]

NoInst == [cls |-> "none"]

NoOut == [none |-> TRUE]

NoTable == Table(0, <<>>)

NoHeld == [df |-> NoTable, out |-> NoOut]

Get(options, key, default) ==
    IF key \in DOMAIN options THEN options[key] ELSE default

GetOpt(options, key) ==
    IF key \in DOMAIN options THEN Some(options[key]) ELSE None

(***************************************************************************)
(* BaseStatement.                                                          *)
(***************************************************************************)
expected_parameters(cls) ==
    CASE cls = "BaseStatement" -> <<"type", "severity", "location">>
      [] cls = "Unique" -> <<"at_least_%">>
      [] cls = "NotNull" -> <<"at_least_%", "at_most_%", "multicolumn_logic">>
      [] cls = "RowCount" -> <<"min", "max">>
      [] cls = "Contain" ->
            <<"rule", "values", "parser", "occurrences_per_value",
              "min_occurrences", "max_occurrences", "verbose">>
      [] cls = "StatisticInInterval" ->
            <<"statistic", "<", "<=", ">", ">=", "==", "!=",
              "combination_logic", "atol", "rtol">>

\* The keys the message of _validate_options lists as valid.
ValidParametersMessage(cls) == expected_parameters(cls)

\* BaseStatement._validate_options: NoErr, or the ValueError it raises.
_validate_options(cls, options) ==
    LET allowed == ToSet(expected_parameters(cls) \o expected_parameters("BaseStatement"))
        unexpected_parameters == {option \in DOMAIN options : option \notin allowed}
    IN  IF unexpected_parameters # {}
        THEN [kind |-> "ValueError",
              unexpected |-> unexpected_parameters,
              valid |-> ValidParametersMessage(cls)]
        ELSE NoErr

\* BaseStatement._parse_options: string options are rendered by the Jinja
\* environment; the option strings drawn here hold no template expression
\* and are no Python literals, and such strings render to themselves.
_parse_options(options) == options

BaseStatement_init(cls, options) ==
    [cls |-> cls, options |-> _parse_options(options)]

BaseStatement_report(self, df) == [self |-> self, out |-> <<>>, err |-> NoErr]

BaseStatement_result(self, report) == [self |-> self, verdict |-> TRUE, err |-> NoErr]

BaseStatement_profile(df) == [out |-> NoOut, err |-> Err("NotImplementedError")]

(***************************************************************************)
(* Unique.                                                                 *)
(***************************************************************************)
\* The variant keep='first' of DataFrame.duplicated: only later copies.
duplicated_keep_first(df) ==
    [i \in 1..NRows(df) |-> \E j \in 1..(i - 1) : df.rows[j] = df.rows[i]]

\* df.duplicated(keep=False): every member of a group of equal rows of
\* size two or more is marked.
duplicated(df) ==
    [i \in 1..NRows(df) |->
        Cardinality({j \in 1..NRows(df) : df.rows[j] = df.rows[i]}) > 1]

\* The number of True entries of a boolean Series.
SumTrue(mask) == Cardinality({i \in DOMAIN mask : mask[i]})

Not(mask) == [i \in DOMAIN mask |-> ~mask[i]]

Unique_init(base) ==
    [self |-> [base EXCEPT !.cls = "Unique"] @@
              [at_least_perc |-> Get(base.options, "at_least_%", Num(100))],
     err |-> NoErr]

Unique_report(self, df) ==
    LET unique == Not(duplicated(df))
    IN  [self |-> self,
         out |-> [unique_rows |-> SumTrue(unique),
                  unique_rows_pct |-> Percent(SumTrue(unique), Len(unique))],
         err |-> NoErr]

Unique_result(self, report) ==
    [self |-> self,
     verdict |-> RatGe(report.unique_rows_pct, self.at_least_perc),
     err |-> NoErr]

Unique_profile_keep_first(df) ==
    LET unique == Not(duplicated_keep_first(df))
    IN  [out |-> ("type" :> "unique") @@
                 ("at_least_%" :> Percent(SumTrue(unique), Len(unique))),
         err |-> NoErr]

Unique_profile(df) ==
    LET unique == Not(duplicated(df))
    IN  [out |-> ("type" :> "unique") @@
                 ("at_least_%" :> Percent(SumTrue(unique), Len(unique))),
         err |-> NoErr]

(***************************************************************************)
(* NotNull (statements/not_null.py).                                       *)
(***************************************************************************)
\* df.isnull(): per row, per column.
isnull(df) == [i \in 1..NRows(df) |-> [c \in 1..df.ncols |-> df.rows[i][c] = Null]]

any_axis1(m) == [i \in DOMAIN m |-> \E c \in DOMAIN m[i] : m[i][c]]

all_axis1(m) == [i \in DOMAIN m |-> \A c \in DOMAIN m[i] : m[i][c]]

NotNull_init(base) ==
    LET self == [base EXCEPT !.cls = "NotNull"] @@
                [at_least_perc |-> Get(base.options, "at_least_%", Num(100)),
                 at_most_perc |-> Get(base.options, "at_most_%", Num(100)),
                 multicolumn_logic |-> Get(base.options, "multicolumn_logic", "any")]
    IN  IF self.multicolumn_logic \in {"any", "all"}
        THEN [self |-> self, err |-> NoErr]
        ELSE [self |-> NoInst, err |-> Err("AssertionError")]

\* NotNull.report with the two branches taking each other's mask.
NotNull_not_nulls_swapped(self, df) ==
    IF self.multicolumn_logic = "all"
    THEN Not(all_axis1(isnull(df)))
    ELSE Not(any_axis1(isnull(df)))

\* The mask of not-null rows of NotNull.report.
NotNull_not_nulls(self, df) ==
    IF self.multicolumn_logic = "all"
    THEN Not(any_axis1(isnull(df)))
    ELSE Not(all_axis1(isnull(df)))

NotNull_report(self, df) ==
    LET not_nulls == NotNull_not_nulls(self, df)
    IN  [self |-> self,
         out |-> [null_rows |-> SumTrue(Not(not_nulls)),
                  null_rows_pct |-> Percent(SumTrue(Not(not_nulls)), Len(not_nulls)),
                  not_null_rows |-> SumTrue(not_nulls),
                  not_null_rows_pct |-> Percent(SumTrue(not_nulls), Len(not_nulls))],
         err |-> NoErr]

NotNull_result(self, report) ==
    [self |-> self,
     verdict |->
        IF ~RatGe(report.not_null_rows_pct, self.at_least_perc) THEN FALSE
        ELSE IF ~RatLe(report.not_null_rows_pct, self.at_most_perc) THEN FALSE
        ELSE TRUE,
     err |-> NoErr]

\* NotNull.profile counting a row as not-null only if no column is null.
NotNull_profile_all_logic(df) ==
    LET not_nulls == Not(any_axis1(isnull(df)))
        at_least_perc == Percent(SumTrue(not_nulls), Len(not_nulls))
    IN  IF at_least_perc = Num(0)
        THEN [out |-> NoOut, err |-> Err("NotImplementedError")]
        ELSE [out |-> IF at_least_perc # Num(100)
                      THEN ("type" :> "not_null") @@ ("at_least_%" :> at_least_perc)
                      ELSE ("type" :> "not_null"),
              err |-> NoErr]

\* NotNull.profile of the statements.py module: no special case, the measured
\* percentage goes to both bounds.
NotNull_profile_module(df) ==
    LET not_nulls == Not(all_axis1(isnull(df)))
    IN  [out |-> ("type" :> "not_null") @@ ("multicolumn_logic" :> "any")
                    @@ ("at_least_%" :> Percent(SumTrue(not_nulls), Len(not_nulls)))
                    @@ ("at_most_%" :> Percent(SumTrue(not_nulls), Len(not_nulls))),
         err |-> NoErr]

NotNull_profile(df) ==
    LET not_nulls == Not(all_axis1(isnull(df)))
        at_least_perc == Percent(SumTrue(not_nulls), Len(not_nulls))
    IN  IF at_least_perc = Num(0)
        THEN [out |-> NoOut, err |-> Err("NotImplementedError")]
        ELSE [out |-> IF at_least_perc # Num(100)
                      THEN ("type" :> "not_null") @@ ("at_least_%" :> at_least_perc)
                      ELSE ("type" :> "not_null"),
              err |-> NoErr]

(***************************************************************************)
(* RowCount.                                                               *)
(***************************************************************************)
RowCount_init(base) ==
    [self |-> [base EXCEPT !.cls = "RowCount"] @@
              [min |-> GetOpt(base.options, "min"),
               max |-> GetOpt(base.options, "max")],
     err |-> NoErr]

RowCount_report(self, df) ==
    [self |-> self, out |-> [rows |-> NRows(df)], err |-> NoErr]

RowCount_result(self, report) ==
    LET row_count == report.rows
    IN  [self |-> self,
         verdict |->
            IF self.min # None /\ ~(row_count >= self.min[1]) THEN FALSE
            ELSE IF self.max # None /\ ~(row_count <= self.max[1]) THEN FALSE
            ELSE TRUE,
         err |-> NoErr]

RowCount_profile(df) ==
    LET row_count == NRows(df)
    IN  [out |-> [type |-> "row_count", min |-> row_count, max |-> row_count],
         err |-> NoErr]

(***************************************************************************)
(* Contain.                                                                *)
(***************************************************************************)
\* np.inf as an occurrence bound: above every count the model can reach.
Inf == 1000000

\* The treater built from the `parser` option turns the configured scalars
\* into the table's value type: an integer treater on integer scalars
\* keeps each of them, in order.
treater(values) == [i \in 1..Len(values) |-> values[i]]

\* treater.serialize: native values back to their JSON-safe form.
serialize(keys) == [values |-> keys]

min_occurrences_rule_default(rule) ==
    CASE rule = "all" -> 1
      [] rule = "only" -> 0
      [] rule = "all_and_only" -> 1

max_occurrences_rule_default(rule) ==
    CASE rule = "all" -> Inf
      [] rule = "only" -> Inf
      [] rule = "all_and_only" -> Inf

Rules == {"all", "only", "all_and_only"}

Contain_init(base) ==
    LET options == base.options
        min_opt == GetOpt(options, "min_occurrences")
        max_opt == GetOpt(options, "max_occurrences")
    IN  IF ~({"rule", "parser", "values"} \subseteq DOMAIN options)
        THEN [self |-> NoInst, err |-> Err("KeyError")]
        \* _set_default_minmax_occurrences looks the rule up in its tables
        ELSE IF (min_opt = None \/ max_opt = None) /\ options["rule"] \notin Rules
        THEN [self |-> NoInst, err |-> Err("KeyError")]
        ELSE LET self ==
                    [cls |-> "Contain",
                     options |-> options,
                     rule |-> options["rule"],
                     values |-> treater(options["values"]),
                     min_occurrences |->
                        IF min_opt = None
                        THEN min_occurrences_rule_default(options["rule"])
                        ELSE min_opt[1],
                     max_occurrences |->
                        IF max_opt = None
                        THEN max_occurrences_rule_default(options["rule"])
                        ELSE max_opt[1],
                     occurrences_per_value |-> Get(options, "occurrences_per_value", <<>>),
                     verbose |-> Get(options, "verbose", TRUE),
                     value_count |-> None,
                     min_max_boundaries |-> None,
                     values_scope_filter |-> None]
             IN  \* _assert_parameters
                 IF self.rule \in Rules /\ self.min_occurrences >= 0
                    /\ self.max_occurrences >= 0
                 THEN [self |-> self, err |-> NoErr]
                 ELSE [self |-> NoInst, err |-> Err("AssertionError")]

\* pd.concat(df[col] for col in df.columns): the columns one after another.
RECURSIVE Pool(_, _)
Pool(df, c) == IF c > df.ncols THEN <<>> ELSE Column(df, c) \o Pool(df, c + 1)

\* Series.value_counts().to_dict(): nulls are dropped, each other distinct
\* value maps to the number of its occurrences.
value_counts(series) ==
    [v \in {series[i] : i \in 1..Len(series)} \ {Null} |->
        Cardinality({i \in 1..Len(series) : series[i] = v})]

RECURSIVE SumOver(_, _)
SumOver(f, S) ==
    IF S = {} THEN 0
    ELSE LET x == CHOOSE y \in S : TRUE IN f[x] + SumOver(f, S \ {x})

\* Contain.report keeping the counts of the first table it ever measured.
Contain_value_count_stale(self, df) ==
    IF self.value_count # None THEN self.value_count[1]
    ELSE value_counts(Pool(df, 1))

\* The counts Contain.report stores in self.value_count.
Contain_value_count(self, df) == value_counts(Pool(df, 1))

Contain_report(self, df) ==
    LET value_count == Contain_value_count(self, df)
        keys == serialize(DOMAIN value_count).values
        total == SumOver(value_count, DOMAIN value_count)
        value_frequency == [k \in keys |-> value_count[k]]
    IN  [self |-> [self EXCEPT !.value_count = Some(value_count)],
         out |-> IF self.verbose
                 THEN [value_frequency |-> value_frequency,
                       value_rel_frequency_pct |->
                            [k \in keys |-> Rat(value_count[k] * 100, total)]]
                 ELSE [value_frequency |-> value_frequency],
         err |-> NoErr]

\* An override group whose unspecified side keeps what an earlier group set.
ApplyOccurrence_keep_earlier(self, min_max_boundaries, occurrence) ==
    LET values == ToSet(treater(occurrence["values"]))
    IN  IF ~(values \subseteq DOMAIN min_max_boundaries)
        THEN [mmb |-> min_max_boundaries, err |-> Err("KeyError")]
        ELSE [mmb |->
                [value \in DOMAIN min_max_boundaries |->
                    IF value \in values
                    THEN [min_occurrences |->
                              Get(occurrence, "min_occurrences",
                                  min_max_boundaries[value].min_occurrences),
                          max_occurrences |->
                              Get(occurrence, "max_occurrences",
                                  min_max_boundaries[value].max_occurrences)]
                    ELSE min_max_boundaries[value]],
              err |-> NoErr]

\* One override group of occurrences_per_value applied to the boundaries:
\* a KeyError when it lists a value the boundaries do not hold.
ApplyOccurrence(self, min_max_boundaries, occurrence) ==
    LET values == ToSet(treater(occurrence["values"]))
    IN  IF ~(values \subseteq DOMAIN min_max_boundaries)
        THEN [mmb |-> min_max_boundaries, err |-> Err("KeyError")]
        ELSE [mmb |->
                [value \in DOMAIN min_max_boundaries |->
                    IF value \in values
                    THEN [min_occurrences |->
                              Get(occurrence, "min_occurrences", self.min_occurrences),
                          max_occurrences |->
                              Get(occurrence, "max_occurrences", self.max_occurrences)]
                    ELSE min_max_boundaries[value]],
              err |-> NoErr]

RECURSIVE ApplyOccurrences(_, _, _)
ApplyOccurrences(self, min_max_boundaries, k) ==
    IF k > Len(self.occurrences_per_value)
    THEN [mmb |-> min_max_boundaries, err |-> NoErr]
    ELSE LET r == ApplyOccurrence(self, min_max_boundaries, self.occurrences_per_value[k])
         IN  IF r.err # NoErr THEN r
             ELSE ApplyOccurrences(self, r.mmb, k + 1)

\* Contain._set_min_max_boundaries: the resolved boundaries, or the error.
_set_min_max_boundaries(self) ==
    LET global == [value \in ToSet(self.values) |->
                      [min_occurrences |-> self.min_occurrences,
                       max_occurrences |-> self.max_occurrences]]
    IN  ApplyOccurrences(self, global, 1)

\* The scope filter keeping the values whose minimum is not zero instead.
_set_values_scope_on_min(min_max_boundaries) ==
    {value \in DOMAIN min_max_boundaries :
        min_max_boundaries[value].min_occurrences # 0}

\* Contain._set_values_scope.
_set_values_scope(min_max_boundaries) ==
    {value \in DOMAIN min_max_boundaries :
        min_max_boundaries[value].max_occurrences # 0}

\* _check_interval failing on an absent required value under every rule.
_check_interval_any_rule(self, value_count) ==
    \A i \in 1..Len(self.values) :
        LET value == self.values[i]
            min_value == self.min_max_boundaries[1][value].min_occurrences
            max_value == self.min_max_boundaries[1][value].max_occurrences
        IN  IF value \in DOMAIN value_count
            THEN min_value <= value_count[value] /\ value_count[value] <= max_value
            ELSE ~(max_value # 0 /\ min_value # 0)

\* Contain._check_interval.
_check_interval(self, value_count) ==
    \A i \in 1..Len(self.values) :
        LET value == self.values[i]
            min_value == self.min_max_boundaries[1][value].min_occurrences
            max_value == self.min_max_boundaries[1][value].max_occurrences
        IN  IF value \in DOMAIN value_count
            THEN min_value <= value_count[value] /\ value_count[value] <= max_value
            ELSE ~(self.rule # "only" /\ max_value # 0 /\ min_value # 0)

\* _check_all requiring every value of self.values, the forbidden ones too.
_check_all_unfiltered(self, value_count) ==
    LET values_in_col == DOMAIN value_count
        values == ToSet(self.values)
    IN  values \ values_in_col = {}

_check_all(self, value_count) ==
    LET values_in_col == DOMAIN value_count
        values == self.values_scope_filter[1]
    IN  values \ values_in_col = {}

\* _check_only accepting every column.
_check_only_lax(self, value_count) == TRUE

_check_only(self, value_count) ==
    LET values_in_col == DOMAIN value_count
        values == self.values_scope_filter[1]
    IN  values_in_col \ values = {}

_check_rule(self, value_count) ==
    CASE self.rule = "all" -> _check_all(self, value_count)
      [] self.rule = "only" -> _check_only(self, value_count)
      [] self.rule = "all_and_only" ->
            _check_all(self, value_count) /\ _check_only(self, value_count)

\* Contain.result: the report passed in is not read; the counts come from
\* self.value_count, which only a previous report call sets.
Contain_result(self, report) ==
    IF self.value_count = None
    THEN [self |-> self, verdict |-> FALSE, err |-> Err("AttributeError")]
    ELSE LET b == _set_min_max_boundaries(self)
         IN  IF b.err # NoErr
             THEN [self |-> self, verdict |-> FALSE, err |-> b.err]
             ELSE LET self2 == [self EXCEPT
                                  !.min_max_boundaries = Some(b.mmb),
                                  !.values_scope_filter = Some(_set_values_scope(b.mmb))]
                      value_count == self.value_count[1]
                  IN  [self |-> self2,
                       verdict |->
                          IF ~_check_interval(self2, value_count) THEN FALSE
                          ELSE IF ~_check_rule(self2, value_count) THEN FALSE
                          ELSE TRUE,
                       err |-> NoErr]

\* Contain.profile: rule 'all_and_only' over the sorted distinct values, with
\* the least and greatest frequency as boundaries.  int() of the NaN that
\* min() gives on a scope without values raises ValueError; a null among the
\* values is serialized as None, which list.sort cannot order with numbers.
\* The serialized form carries the parser of the inferred type.
Contain_profile(df) ==
    LET series == Pool(df, 1)
        value_frequency == value_counts(series)
        frequencies == {value_frequency[v] : v \in DOMAIN value_frequency}
        min_occurrences == CHOOSE f \in frequencies : \A g \in frequencies : f <= g
        max_occurrences == CHOOSE f \in frequencies : \A g \in frequencies : f >= g
        unique == DOMAIN value_frequency
        sorted == CHOOSE q \in [1..Cardinality(unique) -> unique] :
                      \A i, j \in DOMAIN q : i < j => q[i] < q[j]
        statement_template ==
            [type |-> "contain", rule |-> "all_and_only", parser |-> "integer",
             values |-> serialize(sorted).values, max_occurrences |-> max_occurrences]
    IN  IF frequencies = {}
        THEN [out |-> NoOut, err |-> Err("ValueError")]
        ELSE IF Null \in ToSet(series)
        THEN [out |-> NoOut, err |-> Err("TypeError")]
        ELSE [out |-> IF min_occurrences # 1
                      THEN ("min_occurrences" :> min_occurrences) @@ statement_template
                      ELSE statement_template,
              err |-> NoErr]

(***************************************************************************)
(* StatisticInInterval (statements/statistic_in_interval.py).              *)
(***************************************************************************)
allowed_statistics ==
    {"min", "max", "mean", "std", "var", "count", "nunique", "sum", "median", "mode"}

\* str.lower on the combination_logic strings the model draws.
lower(str) ==
    CASE str = "AND" -> "and"
      [] str = "OR" -> "or"
      [] OTHER -> str

\* The default of rtol, 1e-09.
RtolDefault == <<1, 1000000000>>

StatisticInInterval_init(base) ==
    LET options == base.options
    IN  IF "statistic" \notin DOMAIN options
        THEN [self |-> NoInst, err |-> Err("KeyError")]
        ELSE IF options["statistic"] \notin allowed_statistics
        THEN [self |-> NoInst, err |-> Err("AssertionError")]
        ELSE IF lower(Get(options, "combination_logic", "and")) \notin {"and", "or"}
        THEN [self |-> NoInst, err |-> Err("AssertionError")]
        ELSE [self |->
                [cls |-> "StatisticInInterval",
                 options |-> options,
                 statistic |-> options["statistic"],
                 combination_logic |-> lower(Get(options, "combination_logic", "and")),
                 less_than |-> GetOpt(options, "<"),
                 less_or_equal_to |-> GetOpt(options, "<="),
                 equal_to |-> GetOpt(options, "=="),
                 not_equal_to |-> GetOpt(options, "!="),
                 greater_or_equal_to |-> GetOpt(options, ">="),
                 greater_than |-> GetOpt(options, ">"),
                 atol |-> Get(options, "atol", Num(0)),
                 rtol |-> Get(options, "rtol", RtolDefault)],
              err |-> NoErr]

\* The non-null cells of a column, as pandas' skipna statistics see them.
NonNull(col) == {i \in 1..Len(col) : col[i] # Null}

Values(col) == {col[i] : i \in NonNull(col)}

SetMin(S) == CHOOSE x \in S : \A y \in S : x <= y

SetMax(S) == CHOOSE x \in S : \A y \in S : x >= y

RECURSIVE Sorted(_)
Sorted(S) == IF S = {} THEN <<>> ELSE <<SetMin(S)>> \o Sorted(S \ {SetMin(S)})

Occurrences(col, v) == Cardinality({i \in 1..Len(col) : col[i] = v})

\* The non-null cells in ascending order, with repetitions.
RECURSIVE SortedCells(_, _)
SortedCells(col, S) ==
    IF S = {} THEN <<>>
    ELSE [i \in 1..Occurrences(col, SetMin(S)) |-> SetMin(S)]
            \o SortedCells(col, S \ {SetMin(S)})

\* One statistic of one column: a sequence of floats (one entry, except for
\* the mode, which lists every most frequent value in ascending order and is
\* empty on a column without values).  The standard deviation is a square
\* root and has no exact rational model: the model draws no 'std'.
Statistic(statistic, col) ==
    LET n == Cardinality(NonNull(col))
        total == SumOver(col, NonNull(col))
        squares == SumOver([i \in 1..Len(col) |-> col[i] * col[i]], NonNull(col))
        cells == SortedCells(col, Values(col))
    IN  CASE statistic = "min" -> <<IF n = 0 THEN NaN ELSE Num(SetMin(Values(col)))>>
          [] statistic = "max" -> <<IF n = 0 THEN NaN ELSE Num(SetMax(Values(col)))>>
          [] statistic = "mean" -> <<Rat(total, n)>>
          [] statistic = "sum" -> <<Num(total)>>
          [] statistic = "count" -> <<Num(n)>>
          [] statistic = "nunique" -> <<Num(Cardinality(Values(col)))>>
          [] statistic = "median" ->
                <<IF n = 0 THEN NaN
                  ELSE IF n % 2 = 1 THEN Num(cells[(n + 1) \div 2])
                  ELSE Rat(cells[n \div 2] + cells[n \div 2 + 1], 2)>>
          [] statistic = "var" ->
                <<IF n <= 1 THEN NaN ELSE Rat(n * squares - total * total, n * (n - 1))>>
          [] statistic = "mode" ->
                LET top == {v \in Values(col) :
                               \A w \in Values(col) : Occurrences(col, v) >= Occurrences(col, w)}
                    sorted == Sorted(top)
                IN  [i \in 1..Len(sorted) |-> Num(sorted[i])]

RECURSIVE Flatten(_)
Flatten(lists) == IF lists = <<>> THEN <<>> ELSE Head(lists) \o Flatten(Tail(lists))

\* A report's actual_value: a bare float, or a list of floats.
Scalar(v) == [is_list |-> FALSE, items |-> <<v>>]

List(items) == [is_list |-> TRUE, items |-> items]

StatisticInInterval_report(self, df) ==
    LET actual_value ==
            Flatten([c \in 1..df.ncols |-> Statistic(self.statistic, Column(df, c))])
    IN  IF Len(actual_value) > 1
        THEN [self |-> self, out |-> [actual_value |-> List(actual_value)], err |-> NoErr]
        ELSE IF Len(actual_value) = 1
        THEN [self |-> self, out |-> [actual_value |-> Scalar(actual_value[1])], err |-> NoErr]
        ELSE [self |-> self, out |-> NoOut, err |-> Err("IndexError")]

\* math.isclose(a, b, abs_tol=atol, rel_tol=rtol) for non-negative
\* tolerances: |a-b| <= max(rtol * max(|a|, |b|), atol), false on NaN.
\* x * q <= y is computed as x <= y \div q, which is the same on integers
\* and keeps the products small.
isclose(a, b, atol, rtol) ==
    /\ ~IsNaN(a)
    /\ ~IsNaN(b)
    /\ \/ a = b
       \/ RatLe(RatAbsDiff(a, b), atol)
       \/ LET diff == RatAbsDiff(a, b)
              m == RatMax(RatAbs(a), RatAbs(b))
          IN  diff[1] * m[2] <= (rtol[1] * diff[2] * m[1]) \div rtol[2]

\* One comparator of the loop body of result: "true" / "false" when it
\* returns, "next" when the loop goes on.
Comparator(holds, and_logic) ==
    IF holds
    THEN (IF ~and_logic THEN "true" ELSE "next")
    ELSE (IF and_logic THEN "false" ELSE "next")

\* The threshold the `!=` branch of result passes to math.isclose.
NotEqualReference(self) == self.equal_to

\* The six comparators of one loop iteration, in source order; an unset one
\* is skipped.  "raise" is the TypeError of math.isclose on None.
ComparatorSteps(self, value) ==
    LET and_logic == self.combination_logic = "and"
        skip == "next"
    IN  << IF self.less_than # None
           THEN Comparator(RatLt(value, self.less_than[1]), and_logic) ELSE skip,
           IF self.less_or_equal_to # None
           THEN Comparator(RatLe(value, self.less_or_equal_to[1]), and_logic) ELSE skip,
           IF self.equal_to # None
           THEN Comparator(isclose(value, self.equal_to[1], self.atol, self.rtol), and_logic)
           ELSE skip,
           IF self.not_equal_to # None
           THEN (IF NotEqualReference(self) = None THEN "raise"
                 ELSE Comparator(~isclose(value, NotEqualReference(self)[1],
                                          self.atol, self.rtol), and_logic))
           ELSE skip,
           IF self.greater_or_equal_to # None
           THEN Comparator(RatGe(value, self.greater_or_equal_to[1]), and_logic) ELSE skip,
           IF self.greater_than # None
           THEN Comparator(RatGt(value, self.greater_than[1]), and_logic) ELSE skip >>

\* The first step that leaves the loop, or "next".
RECURSIVE FirstExit(_, _)
FirstExit(steps, k) ==
    IF k > Len(steps) THEN "next"
    ELSE IF steps[k] # "next" THEN steps[k]
    ELSE FirstExit(steps, k + 1)

RECURSIVE ResultLoop(_, _, _)
ResultLoop(self, actual_value, k) ==
    IF k > Len(actual_value)
    THEN (IF self.combination_logic = "and" THEN "true" ELSE "false")
    ELSE LET exit == FirstExit(ComparatorSteps(self, actual_value[k]), 1)
         IN  IF exit # "next" THEN exit ELSE ResultLoop(self, actual_value, k + 1)

StatisticInInterval_result(self, report) ==
    LET exit == ResultLoop(self, report.actual_value.items, 1)
    IN  [self |-> self,
         verdict |-> exit = "true",
         err |-> IF exit = "raise" THEN Err("TypeError") ELSE NoErr]

(***************************************************************************)
(* The statement contract: construction, report, result, __call__,        *)
(* profile, dispatched on the class.                                       *)
(***************************************************************************)
Classes ==
    {"BaseStatement", "Unique", "NotNull", "RowCount", "Contain", "StatisticInInterval"}

\* cls(options): BaseStatement.__init__ (validation, template rendering)
\* followed by the subclass's own __init__.
New(cls, options) ==
    LET invalid == _validate_options(cls, options)
        base == BaseStatement_init(cls, options)
    IN  IF invalid # NoErr THEN [self |-> NoInst, err |-> invalid]
        ELSE CASE cls = "BaseStatement" -> [self |-> base, err |-> NoErr]
               [] cls = "Unique" -> Unique_init(base)
               [] cls = "NotNull" -> NotNull_init(base)
               [] cls = "RowCount" -> RowCount_init(base)
               [] cls = "Contain" -> Contain_init(base)
               [] cls = "StatisticInInterval" -> StatisticInInterval_init(base)

report(self, df) ==
    CASE self.cls = "BaseStatement" -> BaseStatement_report(self, df)
      [] self.cls = "Unique" -> Unique_report(self, df)
      [] self.cls = "NotNull" -> NotNull_report(self, df)
      [] self.cls = "RowCount" -> RowCount_report(self, df)
      [] self.cls = "Contain" -> Contain_report(self, df)
      [] self.cls = "StatisticInInterval" -> StatisticInInterval_report(self, df)

result(self, r) ==
    CASE self.cls = "BaseStatement" -> BaseStatement_result(self, r)
      [] self.cls = "Unique" -> Unique_result(self, r)
      [] self.cls = "NotNull" -> NotNull_result(self, r)
      [] self.cls = "RowCount" -> RowCount_result(self, r)
      [] self.cls = "Contain" -> Contain_result(self, r)
      [] self.cls = "StatisticInInterval" -> StatisticInInterval_result(self, r)

\* The static profile of a class; StatisticInInterval inherits the base's.
profile(cls, df) ==
    CASE cls = "Unique" -> Unique_profile(df)
      [] cls = "NotNull" -> NotNull_profile(df)
      [] cls = "RowCount" -> RowCount_profile(df)
      [] cls = "Contain" -> Contain_profile(df)
      [] OTHER -> BaseStatement_profile(df)

\* BaseStatement.__call__: report, then result on that report.
\* [self, out, verdict, err]; verdict is None when either step raised.
__call__(self, df) ==
    LET internal_report == report(self, df)
    IN  IF internal_report.err # NoErr
        THEN [self |-> internal_report.self, out |-> NoOut,
              verdict |-> None, err |-> internal_report.err]
        ELSE LET res == result(internal_report.self, internal_report.out)
             IN  [self |-> res.self,
                  out |-> internal_report.out,
                  verdict |-> IF res.err = NoErr THEN Some(res.verdict) ELSE None,
                  err |-> res.err]

(***************************************************************************)
(* State.                                                                  *)
(*   inst  the statement instance in use, NoInst before construction       *)
(*   held  the report the caller holds, with the table it was made from    *)
(*   last  the last operation: its inputs and what it returned or raised   *)
(***************************************************************************)
EmptyDict == [k \in {} |-> k]

Last(op, cls, arg, df, out, verdict, err) ==
    [op |-> op, cls |-> cls, arg |-> arg, df |-> df, out |-> out,
     verdict |-> verdict, err |-> err]

Init ==
    /\ inst = NoInst
    /\ held = NoHeld
    /\ last = Last("init", "none", EmptyDict, NoTable, NoOut, None, NoErr)

\* cls(options).  A construction that raises creates no instance.
Construct(cls, options) ==
    /\ inst = NoInst
    /\ LET r == New(cls, options)
       IN  /\ inst' = r.self
           /\ last' = Last("construct", cls, options, NoTable, NoOut, None, r.err)
    /\ held' = NoHeld

\* cls(cls.profile(df)): the statement dict a profile returned is used as
\* the options of a new instance.
ConstructFromProfile ==
    /\ last.op = "profile"
    /\ last.err = NoErr
    /\ Construct(last.cls, last.out)

\* instance.report(df); the caller keeps the new report, or drops it and
\* goes on holding the one it had.
Report(df, keep) ==
    /\ inst # NoInst
    /\ LET r == report(inst, df)
       IN  /\ inst' = r.self
           /\ held' = IF r.err = NoErr /\ keep THEN [df |-> df, out |-> r.out] ELSE held
           /\ last' = Last("report", inst.cls, EmptyDict, df, r.out, None, r.err)

\* instance.result(r) on the report r the caller holds.
Result ==
    /\ inst # NoInst
    /\ held # NoHeld
    /\ LET r == result(inst, held.out)
       IN  /\ inst' = r.self
           /\ last' = Last("result", inst.cls, EmptyDict, held.df, held.out,
                           IF r.err = NoErr THEN Some(r.verdict) ELSE None, r.err)
    /\ UNCHANGED held

\* instance(df); the caller keeps the report it held or drops it.
Call(df, keep) ==
    /\ inst # NoInst
    /\ LET r == __call__(inst, df)
       IN  /\ inst' = r.self
           /\ last' = Last("call", inst.cls, EmptyDict, df, r.out, r.verdict, r.err)
    /\ held' = IF keep THEN held ELSE NoHeld

\* cls.profile(df), offline: before the statement is instantiated.
Profile(cls, df) ==
    /\ inst = NoInst
    /\ LET r == profile(cls, df)
       IN  last' = Last("profile", cls, EmptyDict, df, r.out, None, r.err)
    /\ UNCHANGED <<inst, held>>

(***************************************************************************)
(* Inputs.                                                                 *)
(***************************************************************************)
With(d, key, optv) == IF optv = None THEN d ELSE (key :> optv[1]) @@ d

Merged(A, B) == {a @@ b : a \in A, b \in B}

\* Keys added to a configuration: universal keys, and keys no statement
\* (or another statement) declares.
ExtraKeys ==
    {EmptyDict, [severity |-> 5], [foo |-> 1], [location |-> "x", bar |-> 2], [min |-> 0]}

\* A few configurations of every class.
BaseOptions(cls) ==
    CASE cls = "BaseStatement" -> {EmptyDict, [type |-> "base_statement"]}
      [] cls = "Unique" -> {EmptyDict, ("at_least_%" :> Num(50))}
      [] cls = "NotNull" ->
            {EmptyDict, ("at_least_%" :> Num(50)), [multicolumn_logic |-> "all"],
             [multicolumn_logic |-> "some"]}
      [] cls = "RowCount" -> {EmptyDict, [min |-> 1], [min |-> 1, max |-> 1]}
      [] cls = "Contain" ->
            {[rule |-> r, values |-> <<1, 2>>, parser |-> "integer"] :
                r \in {"all", "only", "all_and_only"}}
            \cup {[rule |-> "all", values |-> <<1>>, parser |-> "integer",
                   occurrences_per_value |-> <<[values |-> <<1>>, max_occurrences |-> 1]>>],
                  [rule |-> "all", values |-> <<1>>, parser |-> "integer",
                   occurrences_per_value |-> <<[values |-> <<2>>, max_occurrences |-> 0]>>],
                  [rule |-> "all", values |-> <<1>>],
                  [rule |-> "some", values |-> <<1>>, parser |-> "integer"]}
      [] cls = "StatisticInInterval" ->
            {[statistic |-> "mean"] @@ (">" :> Num(0)) @@ ("<" :> Num(2)),
             [statistic |-> "mode", combination_logic |-> "OR"] @@ ("==" :> Num(1)),
             [statistic |-> "max"] @@ ("!=" :> Num(1)),
             [statistic |-> "mad"],
             ("<" :> Num(2))}

Options(cls) == Merged(BaseOptions(cls), ExtraKeys)

Tables == TablesOf(1, {Null, 1}, MaxCallRows)

(***************************************************************************)
(* Spec: every class, one instance, reports kept or dropped by the caller. *)
(***************************************************************************)
Next ==
    \/ \E cls \in Classes : \E options \in Options(cls) : Construct(cls, options)
    \/ ConstructFromProfile
    \/ \E df \in Tables : \E keep \in BOOLEAN : Report(df, keep)
    \/ Result
    \/ \E df \in Tables : \E keep \in BOOLEAN : Call(df, keep)
    \/ \E cls \in Classes : \E df \in Tables : Profile(cls, df)

Spec == Init /\ [][Next]_vars

\* C1: constructing a statement with a key outside (own expected keys
\* \cup universal keys) raises the configuration error naming the offending
\* keys and that allowed set, and creates no instance; with every key inside
\* the union, options validation passes.
C1_UnexpectedKeysRejected ==
    last.op = "construct" =>
        LET allowed == ToSet(expected_parameters(last.cls))
                           \cup {"type", "severity", "location"}
            offending == DOMAIN last.arg \ allowed
        IN  IF offending # {}
            THEN /\ inst = NoInst
                 /\ last.err.kind = "ValueError"
                 /\ last.err.unexpected = offending
                 /\ ToSet(last.err.valid) = allowed
            ELSE last.err.kind # "ValueError"

\* What a new instance with the same options returns when invoked on df.
FreshCall(self, df) == __call__(New(self.cls, self.options).self, df)

\* C2: invoking an instance on a table T returns the {detail, result} (or
\* raises the error) that a new instance with the same options returns on T,
\* whatever the instance was invoked on before.
C2_CallDependsOnlyOnTable ==
    last.op = "call" =>
        /\ last.out = FreshCall(inst, last.df).out
        /\ last.verdict = FreshCall(inst, last.df).verdict
        /\ last.err = FreshCall(inst, last.df).err

\* A Contain instance that reported on one table, was then invoked on a table
\* with other counts, and passed.
C2_Witness ==
    /\ last.op = "call"
    /\ inst.cls = "Contain"
    /\ held # NoHeld
    /\ held.out.value_frequency # last.out.value_frequency
    /\ last.verdict = Some(TRUE)

\* C3: result(r) is the verdict of the table r was reported from, also when
\* the instance has reported on another table since.
C3_ResultReadsOnlyItsReport ==
    (last.op = "result" /\ last.err = NoErr) =>
        last.verdict = FreshCall(inst, held.df).verdict

\* C12: for every instance whose construction succeeded and every report r
\* its own report call returned, result(r) returns a boolean and never
\* raises, also for a Contain whose override group lists a value outside
\* `values` and for a StatisticInInterval given '!=' without '=='.
C12_ResultNeverRaises ==
    (\/ last.op = "result"
     \/ last.op = "call" /\ last.out # NoOut) =>
        /\ last.err = NoErr
        /\ last.verdict \in {Some(TRUE), Some(FALSE)}

\* result raised KeyError: an override group lists 2, `values` is [1].
C12_ContainKeyError ==
    /\ last.op = "result"
    /\ inst.cls = "Contain"
    /\ ToSet(inst.values) = {1}
    /\ inst.occurrences_per_value[1].values = <<2>>
    /\ last.err.kind = "KeyError"

\* result raised TypeError: '!=' is given, '==' is not.
C12_StatisticTypeError ==
    /\ last.op = "result"
    /\ inst.cls = "StatisticInInterval"
    /\ "!=" \in DOMAIN inst.options
    /\ "==" \notin DOMAIN inst.options
    /\ last.err.kind = "TypeError"

(***************************************************************************)
(* SpecRows: Unique, NotNull and RowCount, one report/result cycle per     *)
(* instance (the lifecycle of a validation item), on one- and two-column   *)
(* tables.                                                                 *)
(***************************************************************************)
\* The column x = [1, 1, 2, 3, None].
ExampleX == Table(1, << <<1>>, <<1>>, <<2>>, <<3>>, <<Null>> >>)

RowTables ==
    TablesOf(1, {Null, 1, 2}, MaxRows) \cup TablesOf(2, {Null, 1}, MaxRows)
        \cup {ExampleX}

RowClasses == {"Unique", "NotNull", "RowCount"}

Percentages == {None, Some(Num(0)), Some(Num(50)), Some(Num(80)), Some(Num(90))}

RowOptions(cls) ==
    CASE cls = "Unique" ->
            {With(EmptyDict, "at_least_%", a) : a \in Percentages \cup {Some(Num(100))}}
      [] cls = "NotNull" ->
            {With(With(With(EmptyDict, "at_least_%", a), "at_most_%", b),
                  "multicolumn_logic", l) :
                a \in Percentages, b \in {None, Some(Num(50)), Some(Num(80))},
                l \in {None, Some("any"), Some("all")}}
            \cup {[multicolumn_logic |-> "some"]}
      [] cls = "RowCount" ->
            {With(With(EmptyDict, "min", a), "max", b) :
                a \in {None, Some(0), Some(1), Some(2)},
                b \in {None, Some(0), Some(1), Some(2)}}

\* The instance has just been built: its one cycle is still to come.
Unused == last.op = "construct"

NextRows ==
    \/ \E cls \in RowClasses : \E options \in RowOptions(cls) : Construct(cls, options)
    \/ ConstructFromProfile
    \/ \E df \in RowTables : Unused /\ Report(df, TRUE)
    \/ Result
    \/ \E df \in RowTables : Unused /\ Call(df, FALSE)
    \/ \E cls \in RowClasses : \E df \in RowTables : Profile(cls, df)

SpecRows == Init /\ [][NextRows]_vars

Measured == last.op \in {"report", "result", "call"} /\ last.err = NoErr

Judged == last.op \in {"result", "call"} /\ last.err = NoErr

\* The rows of df no other row of df is identical to.
RowsWithoutTwin(df) ==
    {i \in 1..NRows(df) : \A j \in 1..NRows(df) : j # i => df.rows[j] # df.rows[i]}

\* C4: on a non-empty scope Unique reports as unique_rows the number of rows
\* no other row is identical to, and passes iff 100 * unique_rows / row_count
\* >= at_least_% (100 by default: iff the rows are pairwise distinct).
C4_UniqueRows ==
    (inst.cls = "Unique" /\ Measured /\ NRows(last.df) > 0) =>
        LET n == NRows(last.df)
            u == Cardinality(RowsWithoutTwin(last.df))
            t == Get(inst.options, "at_least_%", <<100, 1>>)
        IN  /\ last.out.unique_rows = u
            \* a NaN threshold compares false
            /\ Judged => (last.verdict[1] <=> (t[2] # 0 /\ 100 * u * t[2] >= t[1] * n))
            /\ (Judged /\ "at_least_%" \notin DOMAIN inst.options) =>
                    (last.verdict[1] <=>
                        \A i, j \in 1..n : i # j => last.df.rows[i] # last.df.rows[j])

\* Three rows, two of them identical: one unique row, 33.3 %.
C4_Witness ==
    /\ inst.cls = "Unique"
    /\ last.op = "call"
    /\ NRows(last.df) = 3
    /\ last.out.unique_rows = 1
    /\ last.verdict = Some(FALSE)

\* C5: on a non-empty scope NotNull reports as null_rows the rows with at
\* least one null column under 'all' and the rows whose columns are all null
\* under 'any' (the default); null_rows + not_null_rows is the row count; the
\* verdict is true iff at_least_% <= not-null percentage <= at_most_% (both
\* 100 by default).  x = [1,1,2,3,None] measures 80 %, passes at_least_% = 80
\* and fails at_least_% = 90.
C5_NotNullRows ==
    (inst.cls = "NotNull" /\ Measured /\ NRows(last.df) > 0) =>
        LET df == last.df
            n == NRows(df)
            logic == Get(inst.options, "multicolumn_logic", "any")
            some_null == {i \in 1..n : \E c \in 1..df.ncols : df.rows[i][c] = Null}
            all_null == {i \in 1..n : \A c \in 1..df.ncols : df.rows[i][c] = Null}
            nulls == IF logic = "all" THEN Cardinality(some_null) ELSE Cardinality(all_null)
            lo == Get(inst.options, "at_least_%", <<100, 1>>)
            hi == Get(inst.options, "at_most_%", <<100, 1>>)
        IN  /\ last.out.null_rows = nulls
            /\ last.out.null_rows + last.out.not_null_rows = n
            \* a NaN bound compares false
            /\ Judged => (last.verdict[1] <=>
                            /\ lo[2] # 0 /\ lo[1] * n <= 100 * (n - nulls) * lo[2]
                            /\ hi[2] # 0 /\ 100 * (n - nulls) * hi[2] <= hi[1] * n)
            /\ df = ExampleX => last.out.not_null_rows_pct = <<80, 1>>
            /\ (Judged /\ df = ExampleX /\ DOMAIN inst.options = {"at_least_%"}
                    /\ lo = <<80, 1>>) => last.verdict[1]
            /\ (Judged /\ df = ExampleX /\ DOMAIN inst.options = {"at_least_%"}
                    /\ lo = <<90, 1>>) => ~last.verdict[1]

\* Two columns under 'all': a row with one null column counts as null, and
\* the statement passes its bounds.
C5_Witness ==
    /\ inst.cls = "NotNull"
    /\ last.op = "call"
    /\ inst.multicolumn_logic = "all"
    /\ last.df.ncols = 2
    /\ \E i \in 1..NRows(last.df) :
            last.df.rows[i][1] = Null /\ last.df.rows[i][2] # Null
    /\ last.out.null_rows = 1
    /\ last.out.not_null_rows = 1
    /\ last.verdict = Some(TRUE)

\* C6: an instance built from the profile of a table passes on that table:
\* RowCount on every table, Unique and NotNull on every non-empty table the
\* profile succeeds on.
C6_ProfileRoundTrip ==
    (/\ last.op = "call"
     /\ inst.cls \in RowClasses
     /\ inst.cls = "RowCount" \/ NRows(last.df) > 0
     /\ profile(inst.cls, last.df).err = NoErr
     /\ inst.options = profile(inst.cls, last.df).out) =>
        (last.err = NoErr /\ last.verdict = Some(TRUE))

\* A Unique profile of a table with duplicates, evaluated on that table.
C6_Witness ==
    /\ last.op = "call"
    /\ inst.cls = "Unique"
    /\ inst.options = Unique_profile(last.df).out
    /\ NRows(last.df) = 3
    /\ last.out.unique_rows = 1
    /\ last.verdict = Some(TRUE)

\* The percentage of rows with at least one non-null column ('any' logic).
AnyLogicPercent(df) ==
    Percent(Cardinality({i \in 1..NRows(df) :
                            \E c \in 1..df.ncols : df.rows[i][c] # Null}),
            NRows(df))

\* The percentage of rows whose columns are all non-null ('all' logic).
AllLogicPercent(df) ==
    Percent(Cardinality({i \in 1..NRows(df) :
                            \A c \in 1..df.ncols : df.rows[i][c] # Null}),
            NRows(df))

\* What NotNull.profile returns for a measured percentage pct: an error at
\* 0, no at_least_% at 100, at_least_% = pct otherwise.
ProfiledFrom(pct) ==
    IF pct = Num(0) THEN last.err.kind = "NotImplementedError"
    ELSE /\ last.err = NoErr
         /\ last.out["type"] = "not_null"
         /\ IF pct = Num(100) THEN "at_least_%" \notin DOMAIN last.out
            ELSE last.out["at_least_%"] = pct

\* C16 as stated: NotNull.profile measures with 'all' logic, a row counting
\* as not-null only if every scoped column is non-null; it fails when that
\* percentage is 0, omits at_least_% when it is 100 and otherwise sets
\* at_least_% to it.
C16_ProfileUsesAllLogic ==
    (last.op = "profile" /\ last.cls = "NotNull") =>
        ProfiledFrom(AllLogicPercent(last.df))

\* C16 amended: NotNull.profile measures with 'any' logic, a row counting as
\* not-null if at least one scoped column is non-null; it fails when that
\* percentage is 0, omits at_least_% when it is 100 and otherwise sets
\* at_least_% to it.
C16_ProfileUsesAnyLogic ==
    (last.op = "profile" /\ last.cls = "NotNull") =>
        ProfiledFrom(AnyLogicPercent(last.df))

\* Two columns: a row with one null column and a row with two; the profile
\* is at_least_% = 50, where 'all' logic measures 0.
C16_Witness ==
    /\ last.op = "profile"
    /\ last.cls = "NotNull"
    /\ last.df = Table(2, << <<Null, 1>>, <<Null, Null>> >>)
    /\ AllLogicPercent(last.df) = Num(0)
    /\ last.err = NoErr
    /\ last.out["at_least_%"] = Num(50)

\* The profile of the statements.py module measures with 'any' logic too,
\* and says so in the statement it returns.
C16_ModuleProfileAnyLogic ==
    (last.op = "profile" /\ last.cls = "NotNull") =>
        LET statement == NotNull_profile_module(last.df).out
        IN  /\ statement["multicolumn_logic"] = "any"
            /\ statement["at_least_%"] = AnyLogicPercent(last.df)
            /\ statement["at_most_%"] = AnyLogicPercent(last.df)

(***************************************************************************)
(* SpecContain: Contain, one report/result cycle per instance.             *)
(***************************************************************************)
\* One column of up to MaxRows cells, and single rows of two columns.
ContainTables ==
    TablesOf(1, {1, 2, 3}, MaxRows)
        \cup {Table(2, <<row>>) : row \in [1..2 -> {Null, 1, 2}]}

\* Override groups of occurrences_per_value.
OccurrenceLists ==
    {None,
     Some(<<[values |-> <<1>>, max_occurrences |-> 0]>>),
     Some(<<[values |-> <<1>>, min_occurrences |-> 2]>>),
     Some(<<[values |-> <<1>>, min_occurrences |-> 2, max_occurrences |-> 2],
            [values |-> <<1, 2>>, max_occurrences |-> 1]>>),
     Some(<<[values |-> <<3>>, max_occurrences |-> 0]>>)}

ContainOptions ==
    {With(With(With([rule |-> rule, values |-> values, parser |-> "integer"],
                    "min_occurrences", lo), "max_occurrences", hi),
          "occurrences_per_value", per_value) :
        rule \in Rules,
        values \in {<<1>>, <<1, 2>>, <<1, 2, 3>>},
        lo \in {None, Some(0), Some(2)},
        hi \in {None, Some(0), Some(1)},
        per_value \in OccurrenceLists}

\* Configurations carrying one negative boundary: a global one, or one inside
\* an override group.
NegativeBoundaryOptions ==
    {With(With(With([rule |-> rule, values |-> <<1, 2>>, parser |-> "integer"],
                    "min_occurrences", lo), "max_occurrences", hi),
          "occurrences_per_value", per_value) :
        rule \in Rules,
        lo \in {None, Some(-1)},
        hi \in {None, Some(-1)},
        per_value \in {None,
                       Some(<<[values |-> <<1>>, min_occurrences |-> -1]>>),
                       Some(<<[values |-> <<1>>, max_occurrences |-> -1]>>)}}

NextContain ==
    \/ \E options \in ContainOptions \cup NegativeBoundaryOptions :
            Construct("Contain", options)
    \/ \E df \in ContainTables : Unused /\ Report(df, TRUE)
    \/ Result
    \/ \E df \in ContainTables : Unused /\ Call(df, FALSE)

SpecContain == Init /\ [][NextContain]_vars

\* The distinct non-null values of the pooled scope.
Observed(df) ==
    {df.rows[i][c] : i \in 1..NRows(df), c \in 1..df.ncols} \ {Null}

\* C7: with rule 'all_and_only', the default boundaries and no per-value
\* overrides, Contain passes iff the set of distinct values observed in the
\* pooled scope is exactly the expected set, whatever their frequencies.
C7_AllAndOnlyExactSet ==
    (/\ inst.cls = "Contain"
     /\ Judged
     /\ inst.options.rule = "all_and_only"
     /\ DOMAIN inst.options = {"rule", "values", "parser"}) =>
        (last.verdict[1] <=> Observed(last.df) = ToSet(inst.options.values))

\* The expected values 1 and 2, observed with different frequencies.
C7_Witness ==
    /\ inst.cls = "Contain"
    /\ last.op = "call"
    /\ inst.options = [rule |-> "all_and_only", values |-> <<1, 2>>, parser |-> "integer"]
    /\ last.df = Table(1, << <<1>>, <<2>>, <<1>> >>)
    /\ last.verdict = Some(TRUE)

\* The options without the expected value v, in `values` and in every group.
Without(seq, v) == SelectSeq(seq, LAMBDA x : x # v)

WithoutValue(options, v) ==
    LET dropped == [options EXCEPT !.values = Without(@, v)]
    IN  IF "occurrences_per_value" \notin DOMAIN options THEN dropped
        ELSE [dropped EXCEPT !.occurrences_per_value =
                [k \in 1..Len(@) |-> [@[k] EXCEPT !.values = Without(@, v)]]]

\* C8: an expected value whose resolved max_occurrences is 0 is forbidden:
\* under every rule the result is false when it occurs, it is not in the
\* expected set of the rule checks, and when it is absent the verdict is that
\* of the statement without this value.
C8_ForbiddenValue ==
    (inst.cls = "Contain" /\ Judged) =>
        \A v \in ToSet(inst.values) :
            inst.min_max_boundaries[1][v].max_occurrences = 0 =>
                /\ v \in Observed(last.df) => ~last.verdict[1]
                /\ v \notin inst.values_scope_filter[1]
                /\ v \notin Observed(last.df) =>
                        last.verdict =
                            FreshCall([cls |-> "Contain",
                                       options |-> WithoutValue(inst.options, v)],
                                      last.df).verdict

\* rule 'only', values [1], 1 forbidden by its override, and 1 occurs.
C8_Witness ==
    /\ inst.cls = "Contain"
    /\ last.op = "call"
    /\ inst.options = [rule |-> "only", values |-> <<1>>, parser |-> "integer",
                       occurrences_per_value |->
                            <<[values |-> <<1>>, max_occurrences |-> 0]>>]
    /\ 1 \in Observed(last.df)
    /\ last.verdict = Some(FALSE)

\* A configuration gives a negative occurrence boundary, globally or inside
\* an override group.
HasNegativeBoundary(options) ==
    LET groups == Get(options, "occurrences_per_value", <<>>)
    IN  \/ \E k \in {"min_occurrences", "max_occurrences"} \cap DOMAIN options :
                options[k] < 0
        \/ \E g \in 1..Len(groups) :
                \E k \in {"min_occurrences", "max_occurrences"} \cap DOMAIN groups[g] :
                    groups[g][k] < 0

\* C11: constructing a Contain with a negative occurrence boundary, global or
\* inside an override group, fails at construction, so that no instance
\* carrying a negative boundary reaches report or result.
C11_NegativeBoundaryRejected ==
    /\ (last.op = "construct" /\ last.cls = "Contain"
            /\ HasNegativeBoundary(last.arg)) =>
                (inst = NoInst /\ last.err # NoErr)
    /\ (inst # NoInst /\ inst.cls = "Contain") =>
            ~HasNegativeBoundary(inst.options)

\* A negative global boundary is refused by _assert_parameters.
C11_GlobalRejected ==
    (last.op = "construct" /\ last.cls = "Contain"
        /\ \E k \in {"min_occurrences", "max_occurrences"} \cap DOMAIN last.arg :
                last.arg[k] < 0) =>
            (inst = NoInst /\ last.err.kind = "AssertionError")

\* An instance whose override group gives min_occurrences = -1 was judged.
C11_NegativeGroupJudged ==
    /\ inst # NoInst
    /\ inst.cls = "Contain"
    /\ Judged
    /\ HasNegativeBoundary(inst.options)
    /\ inst.min_max_boundaries[1][1].min_occurrences = -1

\* The global (min, max) pair of a configuration: what it sets explicitly,
\* else the default of its rule.
GlobalPair(options) ==
    [min_occurrences |->
        IF "min_occurrences" \in DOMAIN options THEN options["min_occurrences"]
        ELSE IF options["rule"] = "only" THEN 0 ELSE 1,
     max_occurrences |->
        IF "max_occurrences" \in DOMAIN options THEN options["max_occurrences"]
        ELSE Inf]

\* The override groups listing v, by their position in the list.
GroupsListing(options, v) ==
    LET groups == Get(options, "occurrences_per_value", <<>>)
    IN  {g \in 1..Len(groups) : v \in ToSet(groups[g].values)}

\* The pair of the last group listing v, each side it leaves out taken from
\* the global pair; the global pair when no group lists v.
ResolvedPair(options, v) ==
    LET listing == GroupsListing(options, v)
        global == GlobalPair(options)
    IN  IF listing = {} THEN global
        ELSE LET g == CHOOSE x \in listing : \A y \in listing : y <= x
                 group == options["occurrences_per_value"][g]
             IN  [min_occurrences |->
                      IF "min_occurrences" \in DOMAIN group
                      THEN group["min_occurrences"] ELSE global.min_occurrences,
                  max_occurrences |->
                      IF "max_occurrences" \in DOMAIN group
                      THEN group["max_occurrences"] ELSE global.max_occurrences]

\* C13: the resolved boundaries hold, for every value of `values`, the pair of
\* the last override group listing it, a side this group leaves out being
\* the global one (explicit, else all -> 1, only -> 0, all_and_only -> 1 for
\* the minimum and infinity for the maximum), never that of an earlier
\* group; a value no group lists keeps the global pair.
C13_BoundaryResolution ==
    (inst.cls = "Contain" /\ Judged) =>
        /\ DOMAIN inst.min_max_boundaries[1] = ToSet(inst.values)
        /\ \A v \in ToSet(inst.values) :
                inst.min_max_boundaries[1][v] = ResolvedPair(inst.options, v)

\* Value 1 is listed by two groups, the first giving (2, 2), the last only a
\* maximum; the rule's default minimum 1 is what it resolves to. Value 3 is
\* listed by no group.
C13_Witness ==
    /\ inst.cls = "Contain"
    /\ Judged
    /\ inst.options = [rule |-> "all", values |-> <<1, 2, 3>>, parser |-> "integer",
                       occurrences_per_value |->
                            <<[values |-> <<1>>, min_occurrences |-> 2,
                               max_occurrences |-> 2],
                              [values |-> <<1, 2>>, max_occurrences |-> 1]>>]
    /\ inst.min_max_boundaries[1][1] = [min_occurrences |-> 1, max_occurrences |-> 1]
    /\ inst.min_max_boundaries[1][3] = [min_occurrences |-> 1, max_occurrences |-> Inf]

\* F: the expected values whose resolved max_occurrences is not 0.
Filtered(options) ==
    {v \in ToSet(options["values"]) : ResolvedPair(options, v).max_occurrences # 0}

\* The rule of a configuration on the set O of distinct observed values.
RuleHolds(options, O) ==
    CASE options["rule"] = "all" -> Filtered(options) \subseteq O
      [] options["rule"] = "only" -> O \subseteq Filtered(options)
      [] options["rule"] = "all_and_only" -> O = Filtered(options)

\* C14: with F the expected values whose resolved max_occurrences is not 0
\* and O the distinct observed values, the rule check of 'all' holds iff
\* F \subseteq O, that of 'only' iff O \subseteq F, that of 'all_and_only'
\* iff O = F; a result that is true passed the rule check.
C14_RuleCheck ==
    (inst.cls = "Contain" /\ Judged) =>
        /\ inst.values_scope_filter[1] = Filtered(inst.options)
        /\ _check_rule(inst, inst.value_count[1])
                <=> RuleHolds(inst.options, Observed(last.df))
        /\ last.verdict[1] => RuleHolds(inst.options, Observed(last.df))

\* rule 'all' with 1 forbidden: F = {2}; 2 and the unexpected 3 are observed.
C14_Witness ==
    /\ inst.cls = "Contain"
    /\ Judged
    /\ inst.options.rule = "all"
    /\ ToSet(inst.options.values) = {1, 2}
    /\ Filtered(inst.options) = {2}
    /\ Observed(last.df) = {2, 3}
    /\ last.verdict = Some(TRUE)

\* How many cells of the pooled scope hold v.
Frequency(df, v) ==
    Cardinality({<<i, c>> \in (1..NRows(df)) \X (1..df.ncols) : df.rows[i][c] = v})

\* No expected value is observed outside its resolved [min, max], and none
\* is absent while the rule is not 'only' and both its bounds are non-zero.
IntervalHolds(options, df) ==
    \A v \in ToSet(options["values"]) :
        LET pair == ResolvedPair(options, v)
        IN  IF v \in Observed(df)
            THEN /\ pair.min_occurrences <= Frequency(df, v)
                 /\ Frequency(df, v) <= pair.max_occurrences
            ELSE ~(/\ options["rule"] # "only"
                   /\ pair.min_occurrences # 0
                   /\ pair.max_occurrences # 0)

\* C15: the interval check fails iff an expected value is observed with a
\* frequency outside its resolved [min, max], or is absent while the rule is
\* not 'only' and both its resolved bounds are non-zero; the result is true
\* iff the interval check and the rule check both pass. The pooled values
\* [1, 1, 2] fail rule 'all' with values [1, 2, 3], and under 'only' an
\* absent expected value never fails the interval check.
C15_IntervalAndVerdict ==
    (inst.cls = "Contain" /\ Judged) =>
        /\ _check_interval(inst, inst.value_count[1])
                <=> IntervalHolds(inst.options, last.df)
        /\ last.verdict[1] <=>
                (IntervalHolds(inst.options, last.df)
                    /\ RuleHolds(inst.options, Observed(last.df)))
        /\ (/\ inst.options = [rule |-> "all", values |-> <<1, 2, 3>>,
                               parser |-> "integer"]
            /\ last.df = Table(1, << <<1>>, <<1>>, <<2>> >>)) => ~last.verdict[1]
        /\ (/\ inst.options.rule = "only"
            /\ \A v \in ToSet(inst.values) \cap Observed(last.df) :
                    /\ ResolvedPair(inst.options, v).min_occurrences
                            <= Frequency(last.df, v)
                    /\ Frequency(last.df, v)
                            <= ResolvedPair(inst.options, v).max_occurrences) =>
                _check_interval(inst, inst.value_count[1])

\* The example: [1, 1, 2] under rule 'all' with values [1, 2, 3] fails.
C15_Witness ==
    /\ inst.cls = "Contain"
    /\ Judged
    /\ inst.options = [rule |-> "all", values |-> <<1, 2, 3>>, parser |-> "integer"]
    /\ last.df = Table(1, << <<1>>, <<1>>, <<2>> >>)
    /\ last.verdict = Some(FALSE)

\* rule 'only', value 1 required twice by its group and absent: passes.
C15_OnlyAbsentPasses ==
    /\ inst.cls = "Contain"
    /\ Judged
    /\ inst.options.rule = "only"
    /\ ResolvedPair(inst.options, 1).min_occurrences = 2
    /\ 1 \in ToSet(inst.values)
    /\ 1 \notin Observed(last.df)
    /\ Observed(last.df) # {}
    /\ last.verdict = Some(TRUE)

(***************************************************************************)
(* SpecStat: StatisticInInterval, one report/result cycle per instance.    *)
(* Cells and thresholds are in tenths: 4, 5, 6 stand for 0.4, 0.5, 0.6     *)
(* (every comparison is invariant under the common scale; atol is scaled   *)
(* with them).                                                             *)
(***************************************************************************)
StatTables ==
    TablesOf(1, {Null, 3, 5, 7}, MaxRows)
        \cup {Table(2, <<row>>) : row \in [1..2 -> {Null, 3, 5, 7}]}

StatOptions ==
    {With(With(With(With(With(With(With(With(
        [statistic |-> statistic],
        "<", lt), "<=", le), "==", eq), "!=", ne), ">=", ge), ">", gt),
        "combination_logic", logic), "atol", atol) :
        statistic \in {"mean", "mode"},
        lt \in {None, Some(Num(6))},
        le \in {None, Some(Num(6))},
        eq \in {None, Some(Num(5))},
        ne \in {None, Some(Num(5)), Some(Num(4))},
        ge \in {None, Some(Num(4))},
        gt \in {None, Some(Num(4))},
        logic \in {None, Some("or")},
        atol \in {None, Some(Num(1))}}
    \cup {[statistic |-> "mad"], [statistic |-> "mean", combination_logic |-> "xor"]}

NextStat ==
    \/ \E options \in StatOptions : Construct("StatisticInInterval", options)
    \/ \E df \in StatTables : Unused /\ Report(df, TRUE)
    \/ Result
    \/ \E df \in StatTables : Unused /\ Call(df, FALSE)

SpecStat == Init /\ [][NextStat]_vars

Comparators == {"<", "<=", "==", "!=", ">=", ">"}

\* Whether comparator k with threshold c holds for the measured value v.
Holds(self, k, v, c) ==
    CASE k = "<" -> RatLt(v, c)
      [] k = "<=" -> RatLe(v, c)
      [] k = "==" -> isclose(v, c, self.atol, self.rtol)
      [] k = "!=" -> ~isclose(v, c, self.atol, self.rtol)
      [] k = ">=" -> RatGe(v, c)
      [] k = ">" -> RatGt(v, c)

\* The verdict the configured comparators give over the measured values.
ComparatorVerdict(self, actual_value) ==
    LET configured == DOMAIN self.options \cap Comparators
        values == ToSet(actual_value)
    IN  IF self.combination_logic = "and"
        THEN \A v \in values : \A k \in configured : Holds(self, k, v, self.options[k])
        ELSE \E v \in values : \E k \in configured : Holds(self, k, v, self.options[k])

\* result has been applied to a report of this instance.
StatJudged ==
    /\ inst.cls = "StatisticInInterval"
    /\ last.op \in {"result", "call"}
    /\ last.out # NoOut

\* C9: under 'and' the verdict is true iff every configured comparator holds
\* for every measured value, under 'or' iff some configured comparator holds
\* for some measured value; without comparators it is true for 'and' and
\* false for 'or'.
C9_ComparatorLogic ==
    StatJudged =>
        /\ last.err = NoErr
        /\ last.verdict = Some(ComparatorVerdict(inst, last.out.actual_value.items))

\* C9 restricted to the configurations without a '!=' comparator: there the
\* verdict is the one C9 states.
C9_HoldsWithoutNotEqual ==
    (StatJudged /\ "!=" \notin DOMAIN inst.options) => C9_ComparatorLogic

\* mean with '>': 0.4 and '<': 0.6 passes on a mean of 0.5.
C9_ExampleReached ==
    /\ StatJudged
    /\ inst.options = [statistic |-> "mean"] @@ (">" :> Num(4)) @@ ("<" :> Num(6))
    /\ last.out.actual_value.items = <<Num(5)>>
    /\ last.verdict = Some(TRUE)

\* C10: a configured '!=' with threshold c holds for a value exactly when the
\* value is not within tolerance of c, with or without '==' configured: a
\* statement whose only comparator is '!=' passes ('and') iff no measured
\* value is close to c, and {mean, '>': 0.4, '!=': 0.5, '<': 0.6} passes iff
\* the mean is strictly between 0.4 and 0.6 and is not 0.5.
C10_NotEqualComparator ==
    (StatJudged /\ "!=" \in DOMAIN inst.options) =>
        LET c == inst.options["!="]
            values == ToSet(last.out.actual_value.items)
        IN  /\ last.err = NoErr
            /\ (DOMAIN inst.options \cap Comparators = {"!="}
                    /\ inst.combination_logic = "and") =>
                  (last.verdict[1] <=>
                      \A v \in values : ~isclose(v, c, inst.atol, inst.rtol))
            /\ inst.options = [statistic |-> "mean"] @@ (">" :> Num(4))
                                 @@ ("!=" :> Num(5)) @@ ("<" :> Num(6)) =>
                  (last.verdict[1] <=>
                      \A v \in values : RatGt(v, Num(4)) /\ RatLt(v, Num(6)) /\ v # Num(5))

====
